---- MODULE Spec2Model ----
(***************************************************************************)
(* ManualAutomator: the UI hierarchy dump and the tool operations.         *)
(*                                                                         *)
(*   src/node.py   Node.from_xml, NodesFilter, parse_nodes_from_string,    *)
(*                 parse_nodes_from_file, filter_nodes                     *)
(*   src/tools.py  getDump (filter, class-only retry, unfiltered fallback) *)
(*                 and the other tool operations, getDevices..hideKeyboard *)
(*   src/device.py the process-wide current device                         *)
(*                                                                         *)
(* Strings are sequences of one-character strings, so that Python's        *)
(* `r in s` (substring) and `==` are different relations.  The dump text   *)
(* is the sequence of its markup tokens (start tags with their attributes, *)
(* end tags), in document order.                                           *)
(***************************************************************************)
EXTENDS Integers, Sequences, FiniteSets, TLC

VARIABLES
    device,      \* src/device.py: _device, the process-wide current device
    driver,      \* what the device would answer to dump_hierarchy()
    request,     \* the GetDumpRequest being served
    parsed,      \* outcome of parse_nodes_from_string on the dump text
    filtered,    \* outcome of filter_nodes on the parsed nodes
    response,    \* the GetDumpResponse of getDump
    calls,       \* the calls getDump made, in order
    element,     \* the attributes of the element handed to Node.from_xml
    node,        \* outcome of Node.from_xml on the element
    fs,          \* the file system: what each path holds
    path,        \* the path handed to parse_nodes_from_file
    loaded,      \* outcome of parse_nodes_from_file on the path
    reply,       \* the last tool operation: its name, response, driver calls
    connects     \* the responses of the connect calls so far, in order

dumpVars == <<driver, request, parsed, filtered, response, calls>>
nodeVars == <<element, node>>
fileVars == <<fs, path, loaded>>
toolVars == <<reply, connects>>

vars == <<device, dumpVars, nodeVars, fileVars, toolVars>>

----------------------------------------------------------------------------
(* Bounds of the model *)

MaxNodes  == 2   \* `node` elements in a flat dump
MaxFields == 2   \* distinct fields named by the filter and the dump together
MaxAttrs  == 2   \* attributes present in a flat dump, over all its elements
MaxElems  == 4   \* elements in a dump of arbitrary shape

----------------------------------------------------------------------------
(* Strings *)

EmptyStr == << >>
s_a  == <<"a">>
s_A  == <<"A">>
s_aA == <<"a", "A">>

\* Python: r in s
Contains(r, s) ==
    \E i \in 0..(Len(s) - Len(r)) : SubSeq(s, i + 1, i + Len(r)) = r

\* Optional[str]: None, or a string
None == [set |-> FALSE, val |-> EmptyStr]
Some(s) == [set |-> TRUE, val |-> s]

\* Python truthiness of an Optional[str]: None and "" are falsy
Truthy(o) == o.set /\ o.val # EmptyStr

----------------------------------------------------------------------------
(* Markup: the dump text as tokens, and the element tree built from it *)

\* an attribute map of one element: a function from attribute names to strings
NoAttrib == [k \in {} |-> EmptyStr]

StartTag(tag, attrib) == [kind |-> "start", tag |-> tag, attrib |-> attrib]
EndTag(tag) == [kind |-> "end", tag |-> tag, attrib |-> NoAttrib]

\* a.get(key): None when the attribute is absent
Get(a, key) == IF key \in DOMAIN a THEN Some(a[key]) ELSE None

\* a.get(key, "") or ""
GetStr(a, key) == IF key \in DOMAIN a THEN a[key] ELSE EmptyStr

ParseError == [ok |-> FALSE, elems |-> << >>]

\* ET.fromstring: the tree as the sequence of its elements in creation order,
\* each with the position of its parent (0 for the root).  `open` is the
\* stack of elements whose end tag has not been read.  Not well-formed:
\* no element, a second root, an end tag that closes nothing or the wrong
\* element, an element left open.
RECURSIVE feed(_, _, _, _)
feed(toks, i, open, elems) ==
    IF i > Len(toks)
    THEN IF open = << >> /\ elems # << >>
         THEN [ok |-> TRUE, elems |-> elems]
         ELSE ParseError
    ELSE LET t == toks[i] IN
         IF t.kind = "start"
         THEN IF open = << >> /\ elems # << >>
              THEN ParseError
              ELSE feed(toks, i + 1, Append(open, Len(elems) + 1),
                        Append(elems,
                               [tag |-> t.tag, attrib |-> t.attrib,
                                parent |-> IF open = << >> THEN 0
                                           ELSE open[Len(open)]]))
         ELSE IF open = << >> \/ elems[open[Len(open)]].tag # t.tag
              THEN ParseError
              ELSE feed(toks, i + 1, SubSeq(open, 1, Len(open) - 1), elems)

\* a parser that recovers: every start tag read is an element of the root,
\* end tags are not checked
fromstring_recovering(xml_text) ==
    LET starts == SelectSeq(xml_text, LAMBDA t : t.kind = "start") IN
    IF starts = << >> THEN ParseError
    ELSE [ok |-> TRUE,
          elems |-> [k \in 1..Len(starts) |->
                        [tag |-> starts[k].tag, attrib |-> starts[k].attrib,
                         parent |-> IF k = 1 THEN 0 ELSE 1]]]

fromstring(xml_text) == feed(xml_text, 1, << >>, << >>)

\* the children of element e, in document order
Children(elems, e) ==
    SelectSeq([j \in 1..Len(elems) |-> j], LAMBDA j : elems[j].parent = e)

\* as findall(tag) would: the matching children of the element only
iter_children(elems, e, tag) ==
    SelectSeq(Children(elems, e), LAMBDA j : elems[j].tag = tag)

\* Element.iter(tag): the element itself when its tag matches, then the
\* iteration of each child in turn
RECURSIVE iter(_, _, _)
RECURSIVE iterEach(_, _, _)
iter(elems, e, tag) ==
    (IF elems[e].tag = tag THEN <<e>> ELSE << >>)
        \o iterEach(elems, Children(elems, e), tag)

iterEach(elems, kids, tag) ==
    IF kids = << >> THEN << >>
    ELSE iter(elems, Head(kids), tag) \o iterEach(elems, Tail(kids), tag)

----------------------------------------------------------------------------
(* Node *)

Whitespace == {" ", "\t", "\n", "\r"}
Digits == <<"0", "1", "2", "3", "4", "5", "6", "7", "8", "9">>
UpperCase == <<"A", "B", "C", "D", "E", "F", "G", "H", "I", "J", "K", "L", "M",
               "N", "O", "P", "Q", "R", "S", "T", "U", "V", "W", "X", "Y", "Z">>
LowerCase == <<"a", "b", "c", "d", "e", "f", "g", "h", "i", "j", "k", "l", "m",
               "n", "o", "p", "q", "r", "s", "t", "u", "v", "w", "x", "y", "z">>

IsDigit(c) == \E d \in 1..Len(Digits) : Digits[d] = c
DigitValue(c) == (CHOOSE d \in 1..Len(Digits) : Digits[d] = c) - 1

\* str.strip()
RECURSIVE LStrip(_)
LStrip(str) ==
    IF str # << >> /\ Head(str) \in Whitespace THEN LStrip(Tail(str)) ELSE str

RECURSIVE RStrip(_)
RStrip(str) ==
    IF str # << >> /\ str[Len(str)] \in Whitespace
    THEN RStrip(SubSeq(str, 1, Len(str) - 1))
    ELSE str

Strip(str) == RStrip(LStrip(str))

\* str.lower()
LowerChar(c) ==
    IF \E u \in 1..Len(UpperCase) : UpperCase[u] = c
    THEN LowerCase[CHOOSE u \in 1..Len(UpperCase) : UpperCase[u] = c]
    ELSE c

Lower(str) == [i \in 1..Len(str) |-> LowerChar(str[i])]

\* the number written by decimal digits, underscores skipped
RECURSIVE Decimal(_, _)
Decimal(str, acc) ==
    IF str = << >> THEN acc
    ELSE IF Head(str) = "_" THEN Decimal(Tail(str), acc)
    ELSE Decimal(Tail(str), 10 * acc + DigitValue(Head(str)))

\* the digits of an integer text: single underscores may stand between them
IsDigitGroups(body) ==
    /\ body # << >>
    /\ IsDigit(body[1])
    /\ IsDigit(body[Len(body)])
    /\ \A i \in 1..Len(body) : IsDigit(body[i]) \/ body[i] = "_"
    /\ \A i \in 1..(Len(body) - 1) : ~(body[i] = "_" /\ body[i + 1] = "_")

Signed(t) == t # << >> /\ Head(t) \in {"+", "-"}

Unsigned(t) == IF Signed(t) THEN Tail(t) ELSE t

\* sys.get_int_max_str_digits(): int() of a text with more digits raises
\* ValueError
int_max_str_digits == 4300

CountDigits(str) == Cardinality({i \in 1..Len(str) : IsDigit(str[i])})

ValueError == [ok |-> FALSE, val |-> 0]
Returns(v) == [ok |-> TRUE, val |-> v]

\* int() of a text without blanks around it: a sign, then digits
int_of(t) ==
    IF ~IsDigitGroups(Unsigned(t)) \/ CountDigits(t) > int_max_str_digits
    THEN ValueError
    ELSE Returns(IF Head(t) = "-" THEN 0 - Decimal(Tail(t), 0)
                 ELSE Decimal(Unsigned(t), 0))

\* int(v) of a string: blanks around the text are skipped
int(str) == int_of(Strip(str))

\* r's value, or the default when r is an exception
ValueOr(r, default) == IF r.ok THEN r.val ELSE default

\* as_int(v, default=0): int(v), the default on TypeError (v is None) and on
\* ValueError
as_int(v) == IF ~v.set THEN 0 ELSE ValueOr(int(v.val), 0)

\* the value compared as it is written
as_bool_unstripped(v) ==
    IF ~v.set THEN FALSE
    ELSE Lower(v.val) \in {<<"t", "r", "u", "e">>, <<"1">>, <<"y", "e", "s">>}

\* as_bool(v, default=False)
as_bool(v) ==
    IF ~v.set THEN FALSE
    ELSE Lower(Strip(v.val)) \in {<<"t", "r", "u", "e">>, <<"1">>,
                                  <<"y", "e", "s">>}

\* \d+ at position i of str: the position of the last digit of the run, or
\* i - 1 when there is no digit at i
DigitRun(str, i) ==
    IF i > Len(str) THEN i - 1
    ELSE LET stop == {j \in i..Len(str) : ~IsDigit(str[j])} IN
         IF stop = {} THEN Len(str)
         ELSE (CHOOSE j \in stop : \A k \in stop : j <= k) - 1

At(str, i, c) == i <= Len(str) /\ str[i] = c

NoBounds == <<<<0, 0>>, <<0, 0>>>>

NoMatch == [matched |-> FALSE, groups |-> << >>, end |-> 0]

\* the pattern \[(\d+),(\d+)\]\[(\d+),(\d+)\]: its characters, "d" for \d+
BoundsPattern == <<"[", "d", ",", "d", "]", "[", "d", ",", "d", "]">>

\* the rest of the pattern after a run of digits from i to e
RECURSIVE match_at(_, _, _, _)
after_digits(str, i, e, pat, groups) ==
    IF e < i THEN NoMatch
    ELSE match_at(str, e + 1, Tail(pat), Append(groups, SubSeq(str, i, e)))

\* the pattern pat matched at position i of str
match_at(str, i, pat, groups) ==
    IF pat = << >>
    THEN [matched |-> TRUE, groups |-> groups, end |-> i - 1]
    ELSE IF Head(pat) = "d"
    THEN after_digits(str, i, DigitRun(str, i), pat, groups)
    ELSE IF At(str, i, Head(pat))
    THEN match_at(str, i + 1, Tail(pat), groups)
    ELSE NoMatch

\* re.match(r"\[(\d+),(\d+)\]\[(\d+),(\d+)\]", str): the four groups of the
\* match at the start of str, or no match
match(str) == match_at(str, 1, BoundsPattern, << >>)

\* x1, y1, x2, y2 = map(int, m.groups()); return ((x1, y1), (x2, y2))
bounds_of(xs) ==
    IF \A k \in 1..4 : xs[k].ok
    THEN Returns(<<<<xs[1].val, xs[2].val>>, <<xs[3].val, xs[4].val>>>>)
    ELSE ValueError

\* `if not m: return default`, then the groups as integers
matched_bounds(m) ==
    IF ~m.matched THEN Returns(NoBounds)
    ELSE bounds_of([k \in 1..4 |-> int(m.groups[k])])

\* parse_bounds(v, default=((0, 0), (0, 0))); map(int, m.groups()) is outside
\* any try
parse_bounds(v) ==
    IF ~v.set \/ v.val = << >> THEN Returns(NoBounds)
    ELSE matched_bounds(match(Strip(v.val)))

\* cls(index=as_int(a.get("index")), ..., bounds=parse_bounds(...), ...):
\* the Node, or the exception of parse_bounds
cls(a, bounds) ==
    IF ~bounds.ok
    THEN [ok |-> FALSE, error |-> "ValueError", node |-> << >>]
    ELSE
    [ok |-> TRUE, error |-> "", node |->
    [ index           |-> as_int(Get(a, "index")),
      text            |-> GetStr(a, "text"),
      resource_id     |-> GetStr(a, "resource-id"),
      view_class_name |-> GetStr(a, "class"),
      package         |-> GetStr(a, "package"),
      content_desc    |-> GetStr(a, "content-desc"),
      checkable       |-> as_bool(Get(a, "checkable")),
      checked         |-> as_bool(Get(a, "checked")),
      clickable       |-> as_bool(Get(a, "clickable")),
      enabled         |-> as_bool(Get(a, "enabled")),
      focusable       |-> as_bool(Get(a, "focusable")),
      focused         |-> as_bool(Get(a, "focused")),
      scrollable      |-> as_bool(Get(a, "scrollable")),
      long_clickable  |-> as_bool(Get(a, "long-clickable")),
      password        |-> as_bool(Get(a, "password")),
      selected        |-> as_bool(Get(a, "selected")),
      visible_to_user |-> as_bool(Get(a, "visible-to-user")),
      bounds          |-> bounds.val,
      drawing_order   |-> as_int(Get(a, "drawing-order")),
      hint            |-> GetStr(a, "hint"),
      display_id      |-> as_int(Get(a, "display-id")) ]]

\* Node.from_xml
from_xml(el) == cls(el.attrib, parse_bounds(Get(el.attrib, "bounds")))

\* the list of the Nodes made, or the first exception
collect(made) ==
    IF \E k \in 1..Len(made) : ~made[k].ok
    THEN [ok |-> FALSE, error |-> "ValueError", nodes |-> << >>]
    ELSE [ok |-> TRUE, error |-> "",
          nodes |-> [k \in 1..Len(made) |-> made[k].node]]

\* [Node.from_xml(el) for el in it]
from_xml_each(elems, it) ==
    collect([k \in 1..Len(it) |-> from_xml(elems[it[k]])])

\* [Node.from_xml(el) for el in root.iter("node")]
nodes_of(root) ==
    IF ~root.ok
    THEN [ok |-> FALSE, error |-> "ParseError", nodes |-> << >>]
    ELSE from_xml_each(root.elems, iter(root.elems, 1, "node"))

\* parse_nodes_from_string: raises on text that is not well-formed
parse_nodes_from_string(xml_text) == nodes_of(fromstring(xml_text))

----------------------------------------------------------------------------
(* parse_nodes_from_file *)

\* what a path of the file system holds
Absent == [kind |-> "absent", content |-> << >>]
File(xml_text) == [kind |-> "file", content |-> xml_text]
Directory == [kind |-> "directory", content |-> << >>]

\* every path taken to exist
exists_always(files, p) == TRUE

\* os.path.exists(path)
exists(files, p) == files[p].kind # "absent"

\* ET.parse(path).getroot(): opens the path, then parses what it holds
parse(files, p) ==
    IF files[p].kind = "absent"
    THEN [ok |-> FALSE, error |-> "FileNotFoundError", elems |-> << >>]
    ELSE IF files[p].kind = "directory"
    THEN [ok |-> FALSE, error |-> "IsADirectoryError", elems |-> << >>]
    ELSE LET root == fromstring(files[p].content) IN
         IF root.ok THEN [ok |-> TRUE, error |-> "", elems |-> root.elems]
         ELSE [ok |-> FALSE, error |-> "ParseError", elems |-> << >>]

\* the outcome of parse_nodes_from_file and the calls it made, in order
Loaded(r, made) ==
    [ok |-> r.ok, error |-> r.error, nodes |-> r.nodes, calls |-> made]

\* root = tree.getroot(); [Node.from_xml(el) for el in root.iter("node")]
loaded_of(tree) ==
    IF ~tree.ok
    THEN Loaded([ok |-> FALSE, error |-> tree.error, nodes |-> << >>],
                <<"exists", "parse">>)
    ELSE Loaded(from_xml_each(tree.elems, iter(tree.elems, 1, "node")),
                <<"exists", "parse">>)

parse_nodes_from_file(files, p) ==
    IF ~exists(files, p)
    THEN Loaded([ok |-> FALSE, error |-> "FileNotFoundError", nodes |-> << >>],
                <<"exists">>)
    ELSE loaded_of(parse(files, p))

----------------------------------------------------------------------------
(* NodesFilter and filter_nodes *)

Fields == {"view_class_name", "package_name", "resource_id",
           "content_description", "text", "hint"}

\* one predicate of filter_nodes: the lambda appended for a field, with the
\* value r it captured
Pred(field, r) == [field |-> field, r |-> r]

\* the hint predicate reading the node's text
apply_hint_on_text(p, n) ==
    CASE p.field = "view_class_name"     -> Contains(p.r, n.view_class_name)
      [] p.field = "package_name"        -> Contains(p.r, n.package)
      [] p.field = "resource_id"         -> n.resource_id = p.r
      [] p.field = "content_description" -> Contains(p.r, n.content_desc)
      [] p.field = "text"                -> Contains(p.r, n.text)
      [] p.field = "hint"                -> Contains(p.r, n.text)

apply(p, n) ==
    CASE p.field = "view_class_name"     -> Contains(p.r, n.view_class_name)
      [] p.field = "package_name"        -> Contains(p.r, n.package)
      [] p.field = "resource_id"         -> n.resource_id = p.r
      [] p.field = "content_description" -> Contains(p.r, n.content_desc)
      [] p.field = "text"                -> Contains(p.r, n.text)
      [] p.field = "hint"                -> Contains(p.r, n.hint)

\* `if f.<field>:` -- a predicate is appended for a field that is truthy
PredOf(f, field) ==
    IF Truthy(f[field]) THEN <<Pred(field, f[field].val)>> ELSE << >>

preds(f) ==
    PredOf(f, "view_class_name") \o PredOf(f, "package_name")
        \o PredOf(f, "resource_id") \o PredOf(f, "content_description")
        \o PredOf(f, "text") \o PredOf(f, "hint")

Reverse(seq) == [i \in 1..Len(seq) |-> seq[Len(seq) + 1 - i]]

\* no predicate: nothing is kept
filter_nodes_none(nodes, f) ==
    LET ps == preds(f) IN
    SelectSeq(nodes, LAMBDA n : \E k \in 1..Len(ps) : apply(ps[k], n)
                                    /\ \A m \in 1..Len(ps) : apply(ps[m], n))

\* the kept nodes, last first
filter_nodes_reversed(nodes, f) ==
    LET ps == preds(f) IN
    IF ps = << >> THEN nodes
    ELSE Reverse(SelectSeq(nodes,
                           LAMBDA n : \A k \in 1..Len(ps) : apply(ps[k], n)))

filter_nodes(nodes, f) ==
    LET ps == preds(f) IN
    IF ps = << >> THEN nodes
    ELSE IF Len(ps) = 1
         THEN SelectSeq(nodes, LAMBDA n : apply(ps[1], n))
         ELSE SelectSeq(nodes, LAMBDA n : \A k \in 1..Len(ps) : apply(ps[k], n))

\* NodesFilter(view_class_name=v): every other field defaults to None
NodesFilter(v) == [k \in Fields |-> IF k = "view_class_name" THEN v ELSE None]

----------------------------------------------------------------------------
(* getDump *)

NoDevice == "None"

NoFilter == [set |-> FALSE, val |-> NodesFilter(None)]
SomeFilter(f) == [set |-> TRUE, val |-> f]

GetDumpResponse(status, error, hierarchy) ==
    [status |-> status, error |-> error, hierarchy |-> hierarchy]

\* the outcome of getDump: its response and the calls it made
Outcome(resp, made) == [response |-> resp, calls |-> made]

\* the failure answered as a success
failed_as_success(e, made) == Outcome(GetDumpResponse(TRUE, e, << >>), made)

\* except Exception as e: status=False, error=str(e), hierarchy=list()
failed(e, made) == Outcome(GetDumpResponse(FALSE, e, << >>), made)

\* get_device().dump_hierarchy(compressed=False): raises when no device was
\* set (attribute lookup on None) and when the device fails
dump_hierarchy(dev, drv) ==
    IF dev = NoDevice THEN [ok |-> FALSE, error |-> "AttributeError", xml |-> << >>]
    ELSE IF drv.raises THEN [ok |-> FALSE, error |-> "DriverError", xml |-> << >>]
    ELSE [ok |-> TRUE, error |-> "", xml |-> drv.xml]

\* the retry taken when view_class_name is None
retries_when_unset(first, f) == Len(first) = 0 /\ ~f.view_class_name.set

\* `if len(filtered) == 0 and request.filter.view_class_name is not None`
retries(first, f) == Len(first) = 0 /\ f.view_class_name.set

\* the filtering of getDump: the full filter, then the class-only retry
filter_with_retry(nodes, f) ==
    LET first == filter_nodes(nodes, f) IN
    IF retries(first, f)
    THEN filter_nodes(nodes, NodesFilter(f.view_class_name))
    ELSE first

\* no fallback to the unfiltered list
hierarchy_filtered_only(nodes, flt) == flt

\* the branches exchanged
hierarchy_swapped(nodes, flt) == IF Len(flt) = 0 THEN flt ELSE nodes

\* the unfiltered list whatever the filter selected
hierarchy_unfiltered(nodes, flt) == nodes

\* `if len(filtered) == 0: hierarchy=nodes else: hierarchy=filtered`
hierarchy_of(nodes, flt) == IF Len(flt) = 0 THEN nodes ELSE flt

getDump(dev, drv, req) ==
    LET d == dump_hierarchy(dev, drv) IN
    IF ~d.ok
    THEN failed(d.error,
                IF dev = NoDevice THEN <<"get_device">>
                ELSE <<"get_device", "dump_hierarchy">>)
    ELSE
    LET p == parse_nodes_from_string(d.xml)
        upto_parse == <<"get_device", "dump_hierarchy",
                        "parse_nodes_from_string">>
    IN
    IF ~p.ok THEN failed(p.error, upto_parse)
    ELSE IF ~req.filter.set
    THEN Outcome(GetDumpResponse(TRUE, "", p.nodes), upto_parse)
    ELSE
    LET f == req.filter.val
        first == filter_nodes(p.nodes, f)
    IN  Outcome(GetDumpResponse(TRUE, "",
                    hierarchy_of(p.nodes, filter_with_retry(p.nodes, f))),
                upto_parse \o <<"filter_nodes">>
                    \o (IF retries(first, f) THEN <<"filter_nodes">>
                        ELSE << >>))

----------------------------------------------------------------------------
(* The tool operations *)

BaseActionResponse(status, error) == [status |-> status, error |-> error]

ConnectDeviceResponse(status, info, error) ==
    [status |-> status, info |-> info, error |-> error]

DevicesListResponse(status, error, devices_serial_list) ==
    [status |-> status, error |-> error,
     devices_serial_list |-> devices_serial_list]

GetAppListResponse(status, error, apps) ==
    [status |-> status, error |-> error, apps |-> apps]

\* a call of the driver (adbutils, uiautomator2): what was called, whether it
\* returned, and what it returned where the operation reads it
Call(name, args, ok, result) ==
    [name |-> name, args |-> args, ok |-> ok, result |-> result]

Step(name, args) == [name |-> name, args |-> args]

\* how the body of a try block ends: it returns a response, or an exception
\* leaves it; with the driver calls made and the current device
Returned(resp, made, dev) ==
    [raised |-> FALSE, error |-> "", response |-> resp, calls |-> made,
     device |-> dev]

Raised(e, made, dev) ==
    [raised |-> TRUE, error |-> e, calls |-> made, device |-> dev]

\* try: body
\* except Exception as e: return <the response of the handler>(error=str(e))
try_except(body, handler) ==
    IF body.raised
    THEN Returned([handler EXCEPT !.error = body.error], body.calls,
                  body.device)
    ELSE body

\* what the driver returns to a call, where an operation reads it
result_of(env, name) ==
    IF name = "app_info" THEN (IF env.installed THEN "info" ELSE "{}")
    ELSE ""

\* get_device().<name>(args) for each step in order, until one raises:
\* AttributeError when no device was set, the error of the driver when the
\* call fails
RECURSIVE issue(_, _, _, _)
issue(dev, steps, env, made) ==
    IF steps = << >> THEN [ok |-> TRUE, error |-> "", calls |-> made]
    ELSE IF dev = NoDevice
    THEN [ok |-> FALSE, error |-> "AttributeError", calls |-> made]
    ELSE LET c == Head(steps) IN
         IF c.name \in env.fails
         THEN [ok |-> FALSE, error |-> "DriverError",
               calls |-> Append(made, Call(c.name, c.args, FALSE, ""))]
         ELSE issue(dev, Tail(steps), env,
                    Append(made, Call(c.name, c.args, TRUE,
                                      result_of(env, c.name))))

\* the calls issued and status=True returned whether or not they raised
perform_unchecked(dev, steps, env) ==
    Returned(BaseActionResponse(TRUE, ""),
             issue(dev, steps, env, << >>).calls, dev)

\* the body of the operations that call the device and return
\* BaseActionResponse(status=True, error="")
perform(dev, steps, env) ==
    LET r == issue(dev, steps, env, << >>) IN
    IF r.ok THEN Returned(BaseActionResponse(TRUE, ""), r.calls, dev)
    ELSE Raised(r.error, r.calls, dev)

\* BaseActionResponse(status=False, error=str(e)), before e is known
failure == BaseActionResponse(FALSE, "")

getDevices(dev, env) ==
    try_except(
        IF "device_list" \in env.fails
        THEN Raised("AdbError", <<Call("device_list", << >>, FALSE, "")>>, dev)
        ELSE Returned(DevicesListResponse(TRUE, "", env.attached),
                      <<Call("device_list", << >>, TRUE, "")>>, dev),
        DevicesListResponse(FALSE, "", << >>))

\* u2.connect(serial) if len(serial) > 0 else u2.connect(): the device of
\* the serial, or the only attached device
u2_connect(serial, env) ==
    IF "connect" \in env.fails THEN [ok |-> FALSE, serial |-> ""]
    ELSE IF serial = ""
    THEN (IF Len(env.attached) = 1
          THEN [ok |-> TRUE, serial |-> env.attached[1]]
          ELSE [ok |-> FALSE, serial |-> ""])
    ELSE IF \E i \in 1..Len(env.attached) : env.attached[i] = serial
    THEN [ok |-> TRUE, serial |-> serial]
    ELSE [ok |-> FALSE, serial |-> ""]

NoInfo == [k \in {} |-> ""]

\* set_device(d) before d.device_info is read
connect_set_first(dev, serial, env) ==
    try_except(
        LET d == u2_connect(serial, env)
            args == IF serial = "" THEN << >> ELSE <<serial>>
        IN
        IF ~d.ok
        THEN Raised("ConnectError", <<Call("connect", args, FALSE, "")>>, dev)
        ELSE IF "device_info" \in env.fails
        THEN Raised("DriverError",
                    <<Call("connect", args, TRUE, d.serial),
                      Call("device_info", << >>, FALSE, "")>>, d.serial)
        ELSE Returned(ConnectDeviceResponse(TRUE, [serial |-> d.serial], ""),
                      <<Call("connect", args, TRUE, d.serial),
                        Call("device_info", << >>, TRUE, d.serial)>>,
                      d.serial),
        ConnectDeviceResponse(FALSE, NoInfo, ""))

connect(dev, serial, env) ==
    try_except(
        LET d == u2_connect(serial, env)
            args == IF serial = "" THEN << >> ELSE <<serial>>
        IN
        IF ~d.ok
        THEN Raised("ConnectError", <<Call("connect", args, FALSE, "")>>, dev)
        ELSE IF "device_info" \in env.fails
        THEN Raised("DriverError",
                    <<Call("connect", args, TRUE, d.serial),
                      Call("device_info", << >>, FALSE, "")>>, dev)
        ELSE Returned(ConnectDeviceResponse(TRUE, [serial |-> d.serial], ""),
                      <<Call("connect", args, TRUE, d.serial),
                        Call("device_info", << >>, TRUE, d.serial)>>,
                      d.serial),
        ConnectDeviceResponse(FALSE, NoInfo, ""))

openNotifications(dev, env) ==
    try_except(perform(dev, <<Step("open_notification", << >>)>>, env), failure)

openQuickSettings(dev, env) ==
    try_except(perform(dev, <<Step("open_quick_settings", << >>)>>, env),
               failure)

appList(dev, apps_filter, env) ==
    try_except(
        LET r == issue(dev,
                       <<Step("app_list", IF apps_filter = "" THEN << >>
                                          ELSE <<apps_filter>>)>>,
                       env, << >>)
        IN  IF r.ok
            THEN Returned(GetAppListResponse(TRUE, "", env.apps), r.calls, dev)
            ELSE Raised(r.error, r.calls, dev),
        GetAppListResponse(FALSE, "", << >>))

\* "Cannot launch app '{}'.".format(pkg)
CannotLaunch(pkg) ==
    CASE pkg = "com.duolingo"   -> "Cannot launch app 'com.duolingo'."
      [] pkg = "com.vk.android" -> "Cannot launch app 'com.vk.android'."

\* app_start whatever app_info returned
launchApp_unchecked(dev, pkg, env) ==
    try_except(perform(dev, <<Step("app_info", <<pkg>>),
                              Step("app_start", <<pkg>>)>>, env),
               failure)

launchApp(dev, pkg, env) ==
    try_except(
        LET info == issue(dev, <<Step("app_info", <<pkg>>)>>, env, << >>) IN
        IF ~info.ok THEN Raised(info.error, info.calls, dev)
        ELSE IF ~env.installed
        THEN Returned(BaseActionResponse(FALSE, CannotLaunch(pkg)),
                      info.calls, dev)
        ELSE LET start == issue(dev, <<Step("app_start", <<pkg>>)>>, env,
                                info.calls)
             IN  IF start.ok
                 THEN Returned(BaseActionResponse(TRUE, ""), start.calls, dev)
                 ELSE Raised(start.error, start.calls, dev),
        failure)

pressKey(dev, key, env) ==
    try_except(perform(dev, <<Step("press", <<key>>)>>, env), failure)

\* app_stop before the home key
closeApp_stop_first(dev, pkg, env) ==
    try_except(perform(dev, <<Step("app_stop", <<pkg>>),
                              Step("press", <<"home">>)>>, env),
               failure)

closeApp(dev, pkg, env) ==
    try_except(perform(dev, <<Step("press", <<"home">>),
                              Step("app_stop", <<pkg>>)>>, env),
               failure)

click(dev, x, y, env) ==
    try_except(perform(dev, <<Step("click", <<x, y>>)>>, env), failure)

swipe(dev, fx, fy, tx, ty, env) ==
    try_except(perform(dev, <<Step("swipe", <<fx, fy, tx, ty>>)>>, env),
               failure)

\* get_device().xpath(res_id).set_text(text)
inputText(dev, res_id, text, env) ==
    try_except(perform(dev, <<Step("xpath", <<res_id>>),
                              Step("set_text", <<text>>)>>, env),
               failure)

hideKeyboard(dev, env) ==
    try_except(perform(dev, <<Step("hide_keyboard", << >>)>>, env), failure)

\* the outcome of getDump as the outcome of a tool operation: its response,
\* and the call of the device it made
as_tool(r, drv, dev) ==
    Returned(r.response,
             IF \E i \in 1..Len(r.calls) : r.calls[i] = "dump_hierarchy"
             THEN <<Call("dump_hierarchy", << >>, ~drv.raises, "")>>
             ELSE << >>,
             dev)

getDumpTool(dev, drv, req) == as_tool(getDump(dev, drv, req), drv, dev)

----------------------------------------------------------------------------
(* The inputs the model draws: devices, dumps and filters *)

Devices == {NoDevice, "emulator-5554"}

\* the attribute of the dump that a filter field is compared with
AttrOf(field) ==
    CASE field = "view_class_name"     -> "class"
      [] field = "package_name"        -> "package"
      [] field = "resource_id"         -> "resource-id"
      [] field = "content_description" -> "content-desc"
      [] field = "text"                -> "text"
      [] field = "hint"                -> "hint"

\* filters naming fields of P only, with values of vals
FiltersOver(P, vals) ==
    {[k \in Fields |-> IF k \in P THEN g[k] ELSE None] :
        g \in [P -> {None} \cup {Some(v) : v \in vals}]}

\* elements carrying attributes of the fields of P only, with values of vals
ElementsOver(P, vals) ==
    UNION {[A -> vals] : A \in SUBSET {AttrOf(k) : k \in P}}

RECURSIVE Weight(_)
Weight(els) ==
    IF els = << >> THEN 0
    ELSE Cardinality(DOMAIN Head(els)) + Weight(Tail(els))

\* <hierarchy> <node .../> ... </hierarchy>
FlatDoc(els) ==
    [i \in 1..(2 * Len(els) + 2) |->
        IF i = 1 THEN StartTag("hierarchy", NoAttrib)
        ELSE IF i = 2 * Len(els) + 2 THEN EndTag("hierarchy")
        ELSE IF i % 2 = 0 THEN StartTag("node", els[i \div 2])
        ELSE EndTag("node")]

\* a flat dump cut before the end tag of its root
Unclosed(els) == SubSeq(FlatDoc(els), 1, 2 * Len(els) + 1)

\* flat dumps of at most MaxNodes elements drawn from elems, with at most
\* cap attributes in all
FlatDocsOf(elems, cap) ==
    {FlatDoc(els) :
        els \in {e \in UNION {[1..n -> elems] : n \in 0..MaxNodes} :
                    Weight(e) <= cap}}

Answer(xml_text) == [raises |-> FALSE, xml |-> xml_text]
Raises == [raises |-> TRUE, xml |-> << >>]

\* one field at a time, values in every relation: r = s, r a proper
\* substring of s, s a proper substring of r, r and s differing in case
OneFieldFilterStrs == {EmptyStr, s_a, s_A, s_aA}
OneFieldNodeStrs == {s_A, s_aA}

\* several fields at a time, one value: a field matches iff it is present
FieldSets == {P \in SUBSET Fields : Cardinality(P) <= MaxFields}
ManyFieldsFilterStrs == {EmptyStr, s_aA}
ManyFieldsNodeStrs == {s_aA}

\* dumps of arbitrary shape: the k-th start tag of the text, when it is a
\* `node`, carries a text attribute of length k
Tags == {"hierarchy", "node"}

RECURSIVE Trees(_)
RECURSIVE Forests(_)
\* the texts of one element with n - 1 descendants
Trees(n) ==
    IF n = 0 THEN {}
    ELSE {<<<<"start", t>>>> \o f \o <<<<"end", t>>>> :
             t \in Tags, f \in Forests(n - 1)}

\* the texts of a sequence of elements, n elements in all
Forests(n) ==
    IF n = 0 THEN {<< >>}
    ELSE UNION {{tr \o rest : tr \in Trees(k), rest \in Forests(n - k)} :
                   k \in 1..n}

Drop(seq, i) == SubSeq(seq, 1, i - 1) \o SubSeq(seq, i + 1, Len(seq))

Retag(seq, i) ==
    [seq EXCEPT ![i] = <<seq[i][1],
                         IF seq[i][2] = "node" THEN "hierarchy" ELSE "node">>]

\* one element and its descendants: well-formed
WellFormedShapes == UNION {Trees(n) : n \in 1..MaxElems}

\* no element, several roots, a tag missing, an end tag of another name
MalformedShapes ==
    UNION {Forests(n) \ Trees(n) : n \in 0..MaxElems}
        \cup UNION {{Drop(sh, i) : i \in 1..Len(sh)} : sh \in WellFormedShapes}
        \cup UNION {{Retag(sh, i) : i \in {j \in 1..Len(sh) : sh[j][1] = "end"}} :
                       sh \in WellFormedShapes}

Label(k) == [j \in 1..k |-> "a"]

Starts(sh, i) == Cardinality({j \in 1..i : sh[j][1] = "start"})

ShapedDoc(sh) ==
    [i \in 1..Len(sh) |->
        IF sh[i][1] = "end" THEN EndTag(sh[i][2])
        ELSE IF sh[i][2] = "node"
        THEN StartTag("node", [k \in {"text"} |-> Label(Starts(sh, i))])
        ELSE StartTag(sh[i][2], NoAttrib)]

ShapedDocs == {ShapedDoc(sh) : sh \in WellFormedShapes \cup MalformedShapes}

TextFilter(v) == [k \in Fields |-> IF k = "text" THEN Some(v) ELSE None]

\* the paths handed to parse_nodes_from_file
Paths == {"dump.xml", "missing.xml"}

\* the attribute values handed to Node.from_xml
MaxPad == 1   \* blanks written before and after an attribute value

Blanks == {" ", "\n"}
Pads == UNION {[1..n -> Blanks] : n \in 0..MaxPad}
Padded(words) == {l \o w \o r : l \in Pads, w \in words, r \in Pads}

BoolAttrs == {"checkable", "checked", "clickable", "enabled", "focusable",
              "focused", "scrollable", "long-clickable", "password",
              "selected", "visible-to-user"}
IntAttrs == {"index", "drawing-order", "display-id"}
StrAttrs == {"text", "resource-id", "class", "package", "content-desc", "hint"}

BoolWords ==
    {<<"t", "r", "u", "e">>, <<"T", "r", "u", "e">>,
     <<"T", "R", "U", "E">>, <<"t", "R", "u", "E">>, <<"1">>,
     <<"y", "e", "s">>, <<"Y", "e", "s">>, <<"Y", "E", "S">>,
     <<"f", "a", "l", "s", "e">>, <<"F", "a", "l", "s", "e">>, <<"0">>,
     <<>>, <<"n", "o">>, <<"o", "n">>, <<"y">>, <<"t">>, <<"t", "r", "u">>,
     <<"t", "r", "u", "e", "1">>, <<"1", "1">>, <<"y", "e", "s", "s">>,
     <<"t", " ", "r", "u", "e">>, <<"y", "e", " ", "s">>}

IntWords ==
    {<<"0">>, <<"7">>, <<"4", "2">>, <<"-", "7">>, <<"+", "7">>,
     <<"0", "0", "7">>, <<"-", "0">>, <<>>, <<"7", ".", "5">>,
     <<"a", "b", "c">>, <<"0", "x", "1", "F">>, <<"1", "e", "3">>,
     <<"1", "_", "0">>, <<"1", "_", "_", "0">>, <<"_", "1">>,
     <<"-", "-", "7">>, <<"-", " ", "7">>, <<"7", " ", "7">>, <<"+">>,
     <<"7", "-">>}

\* [x1,y1][x2,y2]
BoundsText(x1, y1, x2, y2) ==
    <<"[">> \o x1 \o <<",">> \o y1 \o <<"]", "[">> \o x2 \o <<",">> \o y2
        \o <<"]">>

BoundsNumbers == {<<"7">>, <<"1", "0">>}
WholeBounds ==
    {BoundsText(x1, y1, x2, y2) : x1 \in BoundsNumbers, y1 \in BoundsNumbers,
                                  x2 \in BoundsNumbers, y2 \in BoundsNumbers}

Substitute(seq, i, c) == [seq EXCEPT ![i] = c]

\* a character missing, a character replaced, text before, text after
GarbledBounds ==
    UNION {{Drop(t, i) : i \in 1..Len(t)} : t \in WholeBounds}
      \cup UNION {{Substitute(t, i, c) : i \in 1..Len(t), c \in {"x", "-", " "}} :
                     t \in WholeBounds}
      \cup {g \o t : g \in {<<"x">>, <<"0">>, <<"[", "7", "]">>}, t \in WholeBounds}
      \cup {t \o g : g \in {<<"x">>, <<"0">>, <<" ", "x">>, <<"[", "7", "]">>},
                     t \in WholeBounds}
      \cup {<<>>, <<"g", "a", "r", "b", "a", "g", "e">>,
          <<"[", "7", ",", "1", "0", "]">>,
          <<"7", ",", "1", "0", ",", "7", ",", "1", "0">>,
          <<"(", "7", ",", "1", "0", ")", "(", "7", ",", "1", "0", ")">>,
          <<"[", "7", ",", "1", "0", "]", ",", "[", "7", ",", "1", "0", "]">>,
          <<"[", "[", "7", ",", "1", "0", "]", "[", "7", ",", "1", "0", "]", "]">>,
          <<"[", "7", ".", "5", ",", "1", "0", "]", "[", "7", ",", "1", "0", "]">>,
          <<"[", "+", "7", ",", "1", "0", "]", "[", "7", ",", "1", "0", "]">>}

Repeat(c, n) == [i \in 1..n |-> c]

\* [99...9,0][0,0] with one digit more than int() converts
LongBounds ==
    BoundsText(Repeat("9", int_max_str_digits + 1), <<"0">>, <<"0">>, <<"0">>)

Element(attrib) == [tag |-> "node", attrib |-> attrib, parent |-> 0]

\* the world of the tool operations
MaxConnects == 2   \* connect calls in one behaviour

Serials == {"emulator-5554", "R9CT200XYZ"}
Attached == {<< >>, <<"emulator-5554">>, <<"R9CT200XYZ">>,
             <<"emulator-5554", "R9CT200XYZ">>}
Packages == {"com.duolingo", "com.vk.android"}
Keys == {"home", "back"}
Coordinates == {"0.5", "100"}

\* what the driver does when called: the calls that raise, the attached
\* devices, whether app_info finds the package, the installed packages
Env(fails, attached, installed) ==
    [fails |-> fails, attached |-> attached, installed |-> installed,
     apps |-> IF installed THEN <<"com.duolingo">> ELSE << >>]

\* the calls of `names` that raise, and nothing else of note
Failing(names) == {Env(f, << >>, TRUE) : f \in SUBSET names}


----------------------------------------------------------------------------
(* The state machine *)

Serves(dev, drv, flt) ==
    /\ device = dev
    /\ driver = drv
    /\ request = [filter |-> flt]

\* flat dumps and filters on one field
InitOneField ==
    \E k \in Fields :
    \E d \in FlatDocsOf(ElementsOver({k}, OneFieldNodeStrs), MaxNodes) :
    \E f \in FiltersOver({k}, OneFieldFilterStrs) :
        Serves("emulator-5554", Answer(d), SomeFilter(f))

\* flat dumps and filters on several fields; every element has an attribute
InitManyFields ==
    \E P \in FieldSets :
    \E d \in FlatDocsOf(ElementsOver(P, ManyFieldsNodeStrs) \ {NoAttrib},
                         MaxAttrs) :
    \E f \in FiltersOver(P, ManyFieldsFilterStrs) :
        Serves("emulator-5554", Answer(d), SomeFilter(f))

\* dumps of arbitrary shape, unfiltered or filtered by text
InitShape ==
    \E d \in ShapedDocs :
    \E flt \in {NoFilter, SomeFilter(TextFilter(Label(MaxElems - 1)))} :
        Serves("emulator-5554", Answer(d), flt)

\* no current device, a device that fails
InitFailure ==
    \E dev \in Devices :
    \E drv \in {Raises, Answer(FlatDoc(<< >>)),
                Answer(FlatDoc(<<[k \in {"text"} |-> s_A]>>)),
                Answer(Unclosed(<<[k \in {"text"} |-> s_A]>>))} :
    \E flt \in {NoFilter, SomeFilter(NodesFilter(None)),
                SomeFilter(NodesFilter(Some(s_a))),
                SomeFilter(TextFilter(s_a))} :
        Serves(dev, drv, flt)

\* Node.from_xml not called
NoElement == element = NoAttrib /\ node = << >>

\* parse_nodes_from_file not called
NoFile == fs = [x \in Paths |-> Absent] /\ path = "" /\ loaded = << >>

\* no tool operation called
NoTool == reply = << >> /\ connects = << >>

Init ==
    /\ InitOneField \/ InitManyFields \/ InitShape \/ InitFailure
    /\ parsed = << >>
    /\ filtered = << >>
    /\ response = << >>
    /\ calls = << >>
    /\ NoElement /\ NoFile /\ NoTool

\* parse_nodes_from_string applied to the dump text
ParseNodesFromString ==
    /\ parsed = << >>
    /\ ~driver.raises
    /\ parsed' = <<parse_nodes_from_string(driver.xml)>>
    /\ UNCHANGED <<device, driver, request, filtered, response, calls>>
    /\ UNCHANGED <<nodeVars, fileVars, toolVars>>

\* filter_nodes applied to the parsed nodes and the filter of the request
FilterNodes ==
    /\ filtered = << >>
    /\ parsed # << >>
    /\ parsed[1].ok
    /\ request.filter.set
    /\ filtered' = <<filter_nodes(parsed[1].nodes, request.filter.val)>>
    /\ UNCHANGED <<device, driver, request, parsed, response, calls>>
    /\ UNCHANGED <<nodeVars, fileVars, toolVars>>

\* the getDump tool serves the request
GetDump ==
    /\ response = << >>
    /\ LET r == getDump(device, driver, request) IN
          /\ response' = <<r.response>>
          /\ calls' = r.calls
    /\ UNCHANGED <<device, driver, request, parsed, filtered>>
    /\ UNCHANGED <<nodeVars, fileVars, toolVars>>

Next == ParseNodesFromString \/ FilterNodes \/ GetDump

Spec == Init /\ [][Next]_vars

\* getDump not called
NoDump ==
    /\ driver = Raises
    /\ request = [filter |-> NoFilter]
    /\ parsed = << >>
    /\ filtered = << >>
    /\ response = << >>
    /\ calls = << >>

\* one path holds a dump or is a directory, the others hold nothing
InitFile ==
    /\ \E q \in Paths :
       \E e \in {File(d) : d \in ShapedDocs} \cup {Directory} :
           fs = [x \in Paths |-> IF x = q THEN e ELSE Absent]
    /\ path = ""
    /\ loaded = << >>
    /\ device = NoDevice
    /\ NoDump /\ NoElement /\ NoTool

\* parse_nodes_from_file applied to a path not loaded yet
ParseNodesFromFile ==
    /\ \E p \in Paths \ DOMAIN loaded :
          /\ path' = p
          /\ loaded' = loaded @@ (p :> parse_nodes_from_file(fs, p))
    /\ UNCHANGED <<device, fs, dumpVars, nodeVars, toolVars>>

NextFile == ParseNodesFromFile

SpecFile == InitFile /\ [][NextFile]_vars

\* one boolean attribute; two boolean attributes that differ
InitBooleans ==
    \/ \E a \in BoolAttrs : \E v \in Padded(BoolWords) : element = (a :> v)
    \/ \E a \in BoolAttrs : \E b \in BoolAttrs \ {a} :
           element = (a :> <<"t", "r", "u", "e">>)
                        @@ (b :> <<"f", "a", "l", "s", "e">>)

\* one integer attribute
InitIntegers ==
    \E a \in IntAttrs : \E v \in Padded(IntWords) : element = (a :> v)

\* the bounds attribute
InitBounds ==
    \E v \in Padded(WholeBounds \cup GarbledBounds) \cup {LongBounds} :
        element = ("bounds" :> v)

\* no attribute; every attribute
InitAttributes ==
    \/ element = NoAttrib
    \/ \E b \in {<<"t", "r", "u", "e">>, <<"n", "o">>} :
       \E i \in {<<"7">>, <<"x">>} :
       \E t \in {EmptyStr, s_aA} :
           element = [a \in BoolAttrs \cup IntAttrs \cup StrAttrs
                               \cup {"bounds"} |->
                         IF a \in BoolAttrs THEN b
                         ELSE IF a \in IntAttrs THEN i
                         ELSE IF a \in StrAttrs THEN t
                         ELSE BoundsText(i, i, i, i)]

InitNode ==
    /\ InitBooleans \/ InitIntegers \/ InitBounds \/ InitAttributes
    /\ node = << >>
    /\ device = NoDevice
    /\ NoDump /\ NoFile /\ NoTool

\* Node.from_xml applied to the element
FromXml ==
    /\ node = << >>
    /\ node' = <<from_xml(Element(element))>>
    /\ UNCHANGED <<device, element, dumpVars, fileVars, toolVars>>

NextNode == FromXml

SpecNode == InitNode /\ [][NextNode]_vars

\* the process starts: _device = None, no tool operation called
InitTools ==
    /\ device = NoDevice
    /\ reply = << >>
    /\ connects = << >>
    /\ NoDump /\ NoElement /\ NoFile

\* a tool operation is called and ends as `out`
Tool(op, args, out) ==
    /\ reply' = <<[op |-> op, args |-> args, out |-> out]>>
    /\ device' = reply'[1].out.device
    /\ connects' = IF op = "connect" /\ ~reply'[1].out.raised
                   THEN Append(connects, reply'[1].out.response)
                   ELSE connects
    /\ UNCHANGED <<dumpVars, nodeVars, fileVars>>

GetDevices ==
    \E a \in Attached : \E f \in SUBSET {"device_list"} :
        Tool("getDevices", << >>, getDevices(device, Env(f, a, TRUE)))

Connect ==
    /\ Len(connects) < MaxConnects
    /\ \E serial \in Serials \cup {""} : \E a \in Attached :
       \E f \in SUBSET {"connect", "device_info"} :
           Tool("connect", <<serial>>, connect(device, serial, Env(f, a, TRUE)))

OpenNotifications ==
    \E env \in Failing({"open_notification"}) :
        Tool("openNotifications", << >>, openNotifications(device, env))

OpenQuickSettings ==
    \E env \in Failing({"open_quick_settings"}) :
        Tool("openQuickSettings", << >>, openQuickSettings(device, env))

ToolGetDump ==
    \E drv \in {Raises, Answer(FlatDoc(<<[k \in {"text"} |-> s_A]>>)),
                Answer(Unclosed(<<[k \in {"text"} |-> s_A]>>))} :
    \E flt \in {NoFilter, SomeFilter(TextFilter(s_a))} :
        Tool("getDump", << >>, getDumpTool(device, drv, [filter |-> flt]))

AppList ==
    \E apps_filter \in {"", "-3"} : \E installed \in BOOLEAN :
    \E f \in SUBSET {"app_list"} :
        Tool("appList", <<apps_filter>>,
             appList(device, apps_filter, Env(f, << >>, installed)))

LaunchApp ==
    \E pkg \in Packages : \E installed \in BOOLEAN :
    \E f \in SUBSET {"app_info", "app_start"} :
        Tool("launchApp", <<pkg>>,
             launchApp(device, pkg, Env(f, << >>, installed)))

PressKey ==
    \E key \in Keys : \E env \in Failing({"press"}) :
        Tool("pressKey", <<key>>, pressKey(device, key, env))

CloseApp ==
    \E pkg \in Packages : \E env \in Failing({"press", "app_stop"}) :
        Tool("closeApp", <<pkg>>, closeApp(device, pkg, env))

Click ==
    \E x \in Coordinates : \E y \in Coordinates :
    \E env \in Failing({"click"}) :
        Tool("click", <<x, y>>, click(device, x, y, env))

Swipe ==
    \E x \in Coordinates : \E y \in Coordinates :
    \E env \in Failing({"swipe"}) :
        Tool("swipe", <<x, y, y, x>>, swipe(device, x, y, y, x, env))

InputText ==
    \E env \in Failing({"xpath", "set_text"}) :
        Tool("inputText", <<"//*[@text='OK']", "a">>,
             inputText(device, "//*[@text='OK']", "a", env))

HideKeyboard ==
    \E env \in Failing({"hide_keyboard"}) :
        Tool("hideKeyboard", << >>, hideKeyboard(device, env))

NextTools ==
    \/ GetDevices \/ Connect \/ OpenNotifications \/ OpenQuickSettings
    \/ ToolGetDump \/ AppList \/ LaunchApp \/ PressKey \/ CloseApp
    \/ Click \/ Swipe \/ InputText \/ HideKeyboard

SpecTools == InitTools /\ [][NextTools]_vars

----------------------------------------------------------------------------
(* Vocabulary of the properties *)

\* r occurs in s: s = pre \o r \o post
IsSubstring(r, s) ==
    \E i \in 0..Len(s) : \E j \in i..Len(s) : SubSeq(s, i + 1, j) = r

\* the matching rule of the filter table: field, comparison, target field
Matches(field, v, n) ==
    CASE field = "view_class_name"     -> IsSubstring(v, n.view_class_name)
      [] field = "package_name"        -> IsSubstring(v, n.package)
      [] field = "resource_id"         -> n.resource_id = v
      [] field = "content_description" -> IsSubstring(v, n.content_desc)
      [] field = "text"                -> IsSubstring(v, n.text)
      [] field = "hint"                -> IsSubstring(v, n.hint)

SubstringFields == Fields \ {"resource_id"}

\* the active fields of a filter are its non-null fields
Active(f) == {k \in Fields : f[k].set}

MatchesAll(f, n) == \A k \in Active(f) : Matches(k, f[k].val, n)

\* r is a subsequence of s: r's elements are elements of s at strictly
\* increasing positions
IsSubsequence(r, s) ==
    \E at \in [1..Len(r) -> 1..Len(s)] :
        /\ \A k \in 1..Len(r) : r[k] = s[at[k]]
        /\ \A k \in 1..(Len(r) - 1) : at[k] < at[k + 1]

\* the start tags of the `node` elements, in document order
NodeTags(xml) ==
    SelectSeq(xml, LAMBDA t : t.kind = "start" /\ t.tag = "node")

\* the state: what was served, and what came back
theFilter == request.filter.val
theNodes == parsed[1].nodes
theResult == filtered[1]
theResponse == response[1]

Filtering == filtered # << >>
Responded == response # << >>
Filtered == request.filter.set
ByClass == request.filter.set /\ theFilter.view_class_name.set

\* the dump of the device, parsed: well-formed text gives its nodes
theDump == parse_nodes_from_string(driver.xml)

\* getDump answered, and Q holds of the nodes of the dump it retrieved
Served(Q(_)) ==
    /\ Responded
    /\ device # NoDevice
    /\ ~driver.raises
    /\ LET d == theDump IN d.ok /\ Q(d.nodes)

\* whenever getDump answered on a dump it retrieved and parsed, Q holds of
\* the nodes of the dump
WhenServed(Q(_)) ==
    (Responded /\ device # NoDevice /\ ~driver.raises)
        => LET d == theDump IN d.ok => Q(d.nodes)

ClassOnly(nodes) ==
    SelectSeq(nodes, LAMBDA n : Matches("view_class_name",
                                        theFilter.view_class_name.val, n))

----------------------------------------------------------------------------
(* Properties *)

\* C1: with two or more active fields, filter_nodes returns exactly the
\* nodes of the input that satisfy every active predicate.
C1_Conjunction ==
    (Filtering /\ Cardinality(Active(theFilter)) >= 2)
        => theResult = SelectSeq(theNodes, LAMBDA n : MatchesAll(theFilter, n))

C3_WitnessNoClass ==
    Served(LAMBDA nodes :
        /\ Filtered
        /\ ~theFilter.view_class_name.set
        /\ filter_nodes(nodes, theFilter) = << >>
        /\ Len(nodes) >= 2 /\ nodes[1] # nodes[2]
        /\ theResponse.hierarchy = nodes)

C3_WitnessRetryEmpty ==
    Served(LAMBDA nodes :
        /\ ByClass
        /\ ClassOnly(nodes) = << >>
        /\ Len(nodes) >= 2 /\ nodes[1] # nodes[2]
        /\ calls = <<"get_device", "dump_hierarchy",
                     "parse_nodes_from_string", "filter_nodes",
                     "filter_nodes">>
        /\ theResponse.hierarchy = nodes)

C5_Identity ==
    /\ (Filtering /\ Active(theFilter) = {}) => theResult = theNodes
    /\ WhenServed(LAMBDA nodes :
          (~Filtered \/ Active(theFilter) = {})
              => theResponse.hierarchy = nodes)

C5_Witness ==
    /\ Filtering /\ Active(theFilter) = {}
    /\ Len(theNodes) >= 2 /\ theNodes[1] # theNodes[2]
    /\ theResult = theNodes
    /\ Responded /\ theResponse.hierarchy = theNodes

\* C6: with exactly one active field, one of view_class_name, package_name,
\* content_description, text, hint, filter_nodes returns exactly the input
\* nodes whose view_class_name, package, content_desc, text, hint contains
\* the filter value as a case-sensitive substring.
C6_SingleField ==
    \A k \in SubstringFields :
        (Filtering /\ Active(theFilter) = {k})
            => theResult = SelectSeq(theNodes,
                               LAMBDA n : Matches(k, theFilter[k].val, n))

C6_Witness ==
    \E k \in SubstringFields :
        /\ Filtering /\ Active(theFilter) = {k}
        /\ Len(theNodes) = 2 /\ Len(theResult) = 1
        /\ theFilter[k].val = s_a
        /\ Matches(k, s_A, theNodes[1])
        /\ theResult = <<theNodes[2]>>

\* C7: for every non-null resource_id value v, the empty string included, a
\* node passes the resource_id predicate of filter_nodes iff its resource_id
\* equals v.
C7_ExactResourceId ==
    (Filtering /\ theFilter.resource_id.set)
        => /\ \A i \in 1..Len(theResult) :
                 theResult[i].resource_id = theFilter.resource_id.val
           /\ Active(theFilter) = {"resource_id"}
                 => theResult = SelectSeq(theNodes,
                        LAMBDA n : n.resource_id = theFilter.resource_id.val)

\* C8: the result of filter_nodes is a subsequence of its input.
C8_Subsequence == Filtering => IsSubsequence(theResult, theNodes)

C8_Witness ==
    /\ Filtering /\ Active(theFilter) # {}
    /\ Len(theResult) = 2 /\ theResult[1] # theResult[2]
    /\ theResult = theNodes

\* C9: when retrieving or parsing the dump fails, getDump answers status
\* false with the error message and an empty hierarchy, and filter_nodes is
\* not called.
FailureOf(dev, drv) ==
    IF dev = NoDevice THEN "AttributeError"
    ELSE IF drv.raises THEN "DriverError"
    ELSE "ParseError"

C9_FailureResponse ==
    (Responded /\ (device = NoDevice \/ driver.raises \/ ~theDump.ok))
        => /\ theResponse = GetDumpResponse(FALSE, FailureOf(device, driver),
                                            << >>)
           /\ \A i \in 1..Len(calls) : calls[i] # "filter_nodes"

C9_Witness ==
    /\ Responded /\ device # NoDevice /\ ~driver.raises
    /\ ~theDump.ok
    /\ NodeTags(driver.xml) # << >>
    /\ Filtered
    /\ ~theResponse.status

\* C10: a well-formed dump with N `node` elements at any depth parses to
\* exactly N nodes, one per element, in document order; other elements give
\* no node but their `node` descendants do.
C10_ParseAllNodes ==
    (parsed # << >> /\ fromstring(driver.xml).ok)
        => /\ parsed[1].ok
           /\ Len(theNodes) = Len(NodeTags(driver.xml))
           /\ \A k \in 1..Len(theNodes) :
                 theNodes[k] = from_xml(NodeTags(driver.xml)[k]).node

C10_Witness ==
    /\ parsed # << >> /\ fromstring(driver.xml).ok
    /\ driver.xml[1].tag = "hierarchy"
    /\ driver.xml[2].kind = "start" /\ driver.xml[3].kind = "start"
    /\ driver.xml[4].kind = "end" /\ driver.xml[5].kind = "end"
    /\ driver.xml[6].kind = "start"
    /\ Len(theNodes) = 3
    /\ theNodes[1] # theNodes[2] /\ theNodes[2] # theNodes[3]

\* the dumps that are not well-formed by the way they were written
MalformedDocs == {ShapedDoc(sh) : sh \in MalformedShapes}

\* C11: parse_nodes_from_file on a path that does not exist fails with
\* FileNotFoundError before any parsing is attempted, and that failure is of
\* another kind than the one raised for an existing file whose content is not
\* well-formed.
C11_NotFoundBeforeParsing ==
    \A p \in DOMAIN loaded :
        /\ fs[p] = Absent =>
              /\ ~loaded[p].ok
              /\ loaded[p].error = "FileNotFoundError"
              /\ loaded[p].calls = <<"exists">>
        /\ (fs[p].kind = "file" /\ fs[p].content \in MalformedDocs) =>
              /\ ~loaded[p].ok
              /\ loaded[p].error = "ParseError"
              /\ loaded[p].error # "FileNotFoundError"
              /\ loaded[p].calls = <<"exists", "parse">>

\* a missing path and a file that is not well-formed, both loaded
C11_Witness ==
    /\ DOMAIN loaded = Paths
    /\ \E p \in Paths : fs[p] = Absent /\ ~loaded[p].ok
    /\ \E p \in Paths :
          /\ fs[p].kind = "file"
          /\ fs[p].content \in MalformedDocs
          /\ loaded[p].error = "ParseError"

\* C12: parse_nodes_from_string on text that is not well-formed fails with an
\* error and returns no Node list: the nodes that precede the malformed part
\* are not returned as a partial result.
C12_NoPartialResult ==
    (parsed # << >> /\ driver.xml \in MalformedDocs) =>
        /\ ~parsed[1].ok
        /\ parsed[1].error = "ParseError"
        /\ parsed[1].nodes = << >>

\* a complete node element precedes the part that is not well-formed
C12_Witness ==
    /\ parsed # << >>
    /\ driver.xml \in MalformedDocs
    /\ \E i \in 1..(Len(driver.xml) - 1) :
          /\ driver.xml[i].kind = "start" /\ driver.xml[i].tag = "node"
          /\ driver.xml[i + 1] = EndTag("node")
    /\ ~parsed[1].ok

\* the value without the blanks before its first and after its last other
\* character
Trimmed(str) ==
    LET inked == {i \in 1..Len(str) : str[i] \notin Whitespace} IN
    IF inked = {} THEN << >>
    ELSE SubSeq(str, CHOOSE i \in inked : \A j \in inked : i <= j,
                     CHOOSE i \in inked : \A j \in inked : j <= i)

\* the value in lower case, for the letters of true, yes and no
Lowered(str) ==
    [i \in 1..Len(str) |->
        CASE str[i] = "T" -> "t" [] str[i] = "R" -> "r" [] str[i] = "U" -> "u"
          [] str[i] = "E" -> "e" [] str[i] = "Y" -> "y" [] str[i] = "S" -> "s"
          [] str[i] = "F" -> "f" [] str[i] = "A" -> "a" [] str[i] = "L" -> "l"
          [] OTHER -> str[i]]

\* the numbers a bounds value of the inputs can hold
NumberOf ==
    (<<"0">> :> 0) @@ (<<"1">> :> 1) @@ (<<"7">> :> 7) @@ (<<"1", "0">> :> 10)

\* the value is [x1,y1][x2,y2] from its first to its last character
HasBoundsForm(str, x1, y1, x2, y2) == str = BoundsText(x1, y1, x2, y2)

Made == node # << >> /\ node[1].ok
theNode == node[1].node

\* C13: bounds is ((x1,y1),(x2,y2)) only when the whole trimmed value of the
\* bounds attribute is [x1,y1][x2,y2]; for every other value (absent, empty,
\* garbled, text before or after the pattern) bounds is ((0,0),(0,0)).
C13_BoundsWholeValue ==
    Made =>
        LET N == DOMAIN NumberOf
            t == IF "bounds" \in DOMAIN element THEN Trimmed(element["bounds"])
                 ELSE << >>
        IN  IF \E x1 \in N, y1 \in N, x2 \in N, y2 \in N :
                   HasBoundsForm(t, x1, y1, x2, y2)
            THEN \E x1 \in N, y1 \in N, x2 \in N, y2 \in N :
                    /\ HasBoundsForm(t, x1, y1, x2, y2)
                    /\ theNode.bounds = <<<<NumberOf[x1], NumberOf[y1]>>,
                                          <<NumberOf[x2], NumberOf[y2]>>>>
            ELSE theNode.bounds = <<<<0, 0>>, <<0, 0>>>>

\* the field of the Node that each boolean attribute sets
FieldOfBoolean ==
    [a \in BoolAttrs |->
        CASE a = "long-clickable"  -> "long_clickable"
          [] a = "visible-to-user" -> "visible_to_user"
          [] OTHER -> a]

TrueTexts == {<<"t", "r", "u", "e">>, <<"1">>, <<"y", "e", "s">>}

\* C14: each of the eleven boolean fields is true iff its attribute is present
\* and its value, trimmed and in lower case, is "true", "1" or "yes".
C14_BooleanCoercion ==
    Made =>
        \A a \in BoolAttrs :
            theNode[FieldOfBoolean[a]] =
                (a \in DOMAIN element
                    /\ Lowered(Trimmed(element[a])) \in TrueTexts)

\* a value true only after trimming and lowering, and one that stays false
C14_Witness ==
    /\ Made
    /\ \E a \in BoolAttrs :
          /\ a \in DOMAIN element
          /\ element[a] \notin TrueTexts
          /\ theNode[FieldOfBoolean[a]]
    /\ \E a \in BoolAttrs : ~theNode[FieldOfBoolean[a]]

\* the Node of an element without attributes
AllDefaults ==
    [ index |-> 0, text |-> << >>, resource_id |-> << >>,
      view_class_name |-> << >>, package |-> << >>, content_desc |-> << >>,
      checkable |-> FALSE, checked |-> FALSE, clickable |-> FALSE,
      enabled |-> FALSE, focusable |-> FALSE, focused |-> FALSE,
      scrollable |-> FALSE, long_clickable |-> FALSE, password |-> FALSE,
      selected |-> FALSE, visible_to_user |-> FALSE,
      bounds |-> <<<<0, 0>>, <<0, 0>>>>, drawing_order |-> 0, hint |-> << >>,
      display_id |-> 0 ]

FieldOfInteger ==
    [a \in IntAttrs |->
        CASE a = "drawing-order" -> "drawing_order"
          [] a = "display-id"    -> "display_id"
          [] OTHER -> a]

\* an optional sign and decimal digits, blanks around them; as Python reads
\* integers, one underscore may stand between two digits
IsIntegerText(str) ==
    LET t == Trimmed(str)
        d == IF t # << >> /\ t[1] \in {"+", "-"} THEN Tail(t) ELSE t
    IN  /\ d # << >>
        /\ \A i \in 1..Len(d) :
              \/ IsDigit(d[i])
              \/ /\ d[i] = "_"
                 /\ 1 < i /\ i < Len(d)
                 /\ IsDigit(d[i - 1]) /\ IsDigit(d[i + 1])

\* C15: Node.from_xml fails on no attribute map; the element without
\* attributes gives the Node of all defaults; an integer attribute that is
\* absent or is not a base-10 integer gives 0.
C15_NeverFails ==
    node # << >> =>
        /\ node[1].ok
        /\ element = NoAttrib => theNode = AllDefaults
        /\ \A a \in IntAttrs :
              (a \notin DOMAIN element \/ ~IsIntegerText(element[a]))
                  => theNode[FieldOfInteger[a]] = 0

\* C18: whenever the full filter of getDump selects at least one parsed node,
\* the hierarchy returned is exactly filter_nodes(nodes, filter), with no
\* class-only retry and no unfiltered list in its place; and the hierarchy of
\* every successful response is a subsequence of the parsed node list.
C18_NoFallbackOnMatch ==
    WhenServed(LAMBDA nodes :
        /\ (Filtered /\ filter_nodes(nodes, theFilter) # << >>)
              => /\ theResponse =
                        GetDumpResponse(TRUE, "", filter_nodes(nodes, theFilter))
                 /\ calls = <<"get_device", "dump_hierarchy",
                              "parse_nodes_from_string", "filter_nodes">>
        /\ theResponse.status => IsSubsequence(theResponse.hierarchy, nodes))

\* the filter names a class, selects some nodes and not all of them, and the
\* nodes of the class alone are more
C18_Witness ==
    Served(LAMBDA nodes :
        /\ ByClass
        /\ filter_nodes(nodes, theFilter) # << >>
        /\ Len(filter_nodes(nodes, theFilter)) < Len(ClassOnly(nodes))
        /\ theResponse.hierarchy = filter_nodes(nodes, theFilter))

\* the tool operation called last, its arguments, how it ended
theOp == reply[1].op
theArgs == reply[1].args
theOut == reply[1].out

ToolOps ==
    {"getDevices", "connect", "openNotifications", "openQuickSettings",
     "getDump", "appList", "launchApp", "pressKey", "closeApp", "click",
     "swipe", "inputText", "hideKeyboard"}

\* the operations that reach the device through get_device()
DeviceOps == ToolOps \ {"getDevices", "connect"}

\* the driver calls of an operation that ran to its end
DriverCalls ==
    [op \in ToolOps |->
        CASE op = "getDevices"        -> <<"device_list">>
          [] op = "connect"           -> <<"connect", "device_info">>
          [] op = "openNotifications" -> <<"open_notification">>
          [] op = "openQuickSettings" -> <<"open_quick_settings">>
          [] op = "getDump"           -> <<"dump_hierarchy">>
          [] op = "appList"           -> <<"app_list">>
          [] op = "launchApp"         -> <<"app_info", "app_start">>
          [] op = "pressKey"          -> <<"press">>
          [] op = "closeApp"          -> <<"press", "app_stop">>
          [] op = "click"             -> <<"click">>
          [] op = "swipe"             -> <<"swipe">>
          [] op = "inputText"         -> <<"xpath", "set_text">>
          [] op = "hideKeyboard"      -> <<"hide_keyboard">>]

NamesOf(made) == [i \in 1..Len(made) |-> made[i].name]

AllOk(made) == \A i \in 1..Len(made) : made[i].ok

\* C16: every tool operation, called in any state (the current device unset
\* included), returns a response and lets no exception through; a driver call
\* that fails, or a device operation without a current device, gives
\* status=false; status=true is returned only when every driver call of the
\* operation was made and completed without error.
C16_AlwaysResponds ==
    reply # << >> =>
        /\ theOp \in ToolOps
        /\ ~theOut.raised
        /\ theOut.response.status \in BOOLEAN
        /\ ~AllOk(theOut.calls) => ~theOut.response.status
        /\ (theOp \in DeviceOps /\ device = NoDevice)
              => ~theOut.response.status /\ theOut.calls = << >>
        /\ theOut.response.status
              => /\ AllOk(theOut.calls)
                 /\ NamesOf(theOut.calls) = DriverCalls[theOp]

\* an operation on the device called before any connect succeeded, answered
\* with the error of the unset device
C16_Witness ==
    /\ reply # << >>
    /\ connects = << >>
    /\ device = NoDevice
    /\ theOp = "inputText"
    /\ theOut.response = BaseActionResponse(FALSE, "AttributeError")

\* the connect calls that returned status=true, by their place in the calls
Succeeded == {i \in 1..Len(connects) : connects[i].status}

\* the device of the most recent successful connect; unset if none succeeded
LastConnected ==
    IF Succeeded = {} THEN NoDevice
    ELSE connects[CHOOSE i \in Succeeded : \A j \in Succeeded : j <= i].info.serial

\* C17: after any sequence of connect calls and other tool operations the
\* current device is the device of the most recent successful connect, unset
\* if none succeeded; a connect that fails returns status=false with empty
\* info and an error, and leaves the current device as it was; no other tool
\* operation changes the current device.
C17_LastConnectedWins ==
    /\ device = LastConnected
    /\ \A i \in 1..Len(connects) :
          IF connects[i].status
          THEN connects[i].info # NoInfo /\ connects[i].error = ""
          ELSE connects[i].info = NoInfo /\ connects[i].error # ""
    /\ (reply # << >> /\ theOp = "connect")
          => /\ theOut.response = connects[Len(connects)]
             /\ theOut.response.status
                   => theOut.response.info.serial \in
                          {theOut.calls[1].result} \cap Serials

\* a connect succeeded, a later connect to another device failed, another
\* operation ran after it, and the current device is still the first one
C17_Witness ==
    /\ Len(connects) = 2
    /\ connects[1].status
    /\ ~connects[2].status
    /\ reply # << >>
    /\ theOp = "pressKey"
    /\ theOut.response.status
    /\ device = connects[1].info.serial

\* what was called on the device, and with what, in the order of the calls
Issued(made) ==
    [i \in 1..Len(made) |-> Step(made[i].name, made[i].args)]

IsPrefix(s, t) ==
    /\ Len(s) <= Len(t)
    /\ \A i \in 1..Len(s) : s[i] = t[i]

\* C19: closeApp presses the home key before it calls app_stop for the
\* package: with a current device the first call is press("home"), app_stop
\* is called only after that press returned, a failed press gives status=false
\* with app_stop never called, and status=true is returned exactly when both
\* calls completed in that order.
C19_HomeBeforeStop ==
    (reply # << >> /\ theOp = "closeApp") =>
        /\ IsPrefix(Issued(theOut.calls),
                    <<Step("press", <<"home">>), Step("app_stop", theArgs)>>)
        /\ device # NoDevice => theOut.calls # << >>
        /\ Len(theOut.calls) = 2 => theOut.calls[1].ok
        /\ (theOut.calls # << >> /\ ~theOut.calls[1].ok)
              => ~theOut.response.status
        /\ theOut.response.status
              <=> (Len(theOut.calls) = 2 /\ AllOk(theOut.calls))

\* the home press failed on a connected device: app_stop was not called
C19_Witness ==
    /\ reply # << >>
    /\ theOp = "closeApp"
    /\ device # NoDevice
    /\ Issued(theOut.calls) = <<Step("press", <<"home">>)>>
    /\ ~theOut.calls[1].ok
    /\ ~theOut.response.status

\* C20: launchApp asks app_info for the package before starting it:
\* app_start is called only after app_info returned a non-empty result; an
\* empty result gives status=false with the error "Cannot launch app
\* '<pkg>'." and no app_start; app_info raising gives status=false and no
\* app_start.
C20_InfoBeforeStart ==
    (reply # << >> /\ theOp = "launchApp") =>
        /\ IsPrefix(Issued(theOut.calls),
                    <<Step("app_info", theArgs), Step("app_start", theArgs)>>)
        /\ device # NoDevice => theOut.calls # << >>
        /\ Len(theOut.calls) = 2
              => theOut.calls[1].ok /\ theOut.calls[1].result \notin {"", "{}"}
        /\ (theOut.calls # << >> /\ theOut.calls[1].ok
                /\ theOut.calls[1].result = "{}")
              => /\ Len(theOut.calls) = 1
                 /\ ~theOut.response.status
                 /\ theOut.response.error
                       \in {"Cannot launch app 'com.duolingo'.",
                            "Cannot launch app 'com.vk.android'."}
                 /\ theOut.response.error = CannotLaunch(theArgs[1])
        /\ (theOut.calls # << >> /\ ~theOut.calls[1].ok)
              => Len(theOut.calls) = 1 /\ ~theOut.response.status
        /\ theOut.response.status
              <=> (Len(theOut.calls) = 2 /\ AllOk(theOut.calls))

\* app_info returned an empty result on a connected device
C20_Witness ==
    /\ reply # << >>
    /\ theOp = "launchApp"
    /\ device # NoDevice
    /\ Len(theOut.calls) = 1
    /\ theOut.calls[1].ok
    /\ theOut.calls[1].result = "{}"
    /\ theOut.response =
          BaseActionResponse(FALSE, "Cannot launch app 'com.vk.android'.")

====
